---- MODULE Spec2Model ----
\* State-machine model of evaluate_qiskit_humaneval.py: the evaluation driver
\* (evaluate), the task loader (load_tasks), the model call (call_openai) and
\* the isolated executor (run_in_subprocess).
\*
\* Texts are sequences of tokens.  The tokens that matter to the code are
\*   "P"   the success sentinel  ___QHE_PASS___
\*   "F"   the failure sentinel  ___QHE_FAIL___:
\*   "nl"  a newline, "cr" a carriage return, "ws" another whitespace character
\*   "fence" a code fence (three backquotes), "python" the language tag
\* and every other token is ordinary text.
EXTENDS Integers, Sequences, FiniteSets, TLC

\* ------------------------------------------------------------------ bounds
MaxRuns == 2
MaxTimeout == 2
MaxStamp == 1
MaxCalls == 3
MaxResults == 3
MaxLimit == 3
MaxCodeLen == 2
MaxRawLen == 4

\* ------------------------------------------------------- program constants
DefaultTimeoutSec == 45
ErrLimit == 5000

\* --------------------------------------------------------- optional values
None == [some |-> FALSE, val |-> <<>>]
Some(v) == [some |-> TRUE, val |-> v]
NoneInt == [some |-> FALSE, val |-> 0]
SomeInt(n) == [some |-> TRUE, val |-> n]

\* ------------------------------------------------------------ text helpers
IsSpace(c) == c \in {"nl", "ws", "cr"}

RECURSIVE LStrip(_)
LStrip(s) == IF s # <<>> /\ IsSpace(Head(s)) THEN LStrip(Tail(s)) ELSE s

RECURSIVE RStrip(_)
RStrip(s) ==
    IF s # <<>> /\ IsSpace(s[Len(s)]) THEN RStrip(SubSeq(s, 1, Len(s) - 1)) ELSE s

\* str.strip()
Strip(s) == RStrip(LStrip(s))

\* a slice that cuts nothing
Prefix_All(s, n) == s

\* s[:n]
Prefix(s, n) == SubSeq(s, 1, IF n < Len(s) THEN n ELSE Len(s))

\* x in s, for a one-token x
Contains(s, x) == \E i \in 1..Len(s) : s[i] = x

\* the position of the first x in s at or after position from, 0 when there is none
FirstAt(s, x, from) ==
    IF \E i \in from..Len(s) : s[i] = x
    THEN CHOOSE i \in from..Len(s) : s[i] = x /\ \A j \in from..(i - 1) : s[j] # x
    ELSE 0

DigitTok == <<"0", "1", "2", "3", "4", "5", "6", "7", "8", "9">>

\* the decimal rendering of a natural number, one token per digit
RECURSIVE Digits(_)
Digits(n) ==
    IF n < 10 THEN <<DigitTok[n + 1]>>
    ELSE Digits(n \div 10) \o <<DigitTok[(n % 10) + 1]>>

\* ---------------------------------------------------- extract_code_only
\* CODE_BLOCK_RE is: fence, optional "python" tag, greedy whitespace, a lazy
\* DOTALL group, fence.  The leftmost fence that has a later fence opens the
\* block, the tag and the whitespace after it are skipped, and the group runs
\* to the next fence.
SkipTag(s, i) == IF i <= Len(s) /\ s[i] = "python" THEN i + 1 ELSE i

RECURSIVE SkipSpace(_, _)
SkipSpace(s, i) == IF i <= Len(s) /\ IsSpace(s[i]) THEN SkipSpace(s, i + 1) ELSE i

extract_code_only(text) ==
    LET open == FirstAt(text, "fence", 1)
        close == IF open = 0 THEN 0 ELSE FirstAt(text, "fence", open + 1)
    IN IF close = 0
       THEN Strip(text)
       ELSE Strip(SubSeq(text, SkipSpace(text, SkipTag(text, open + 1)), close - 1))

\* ------------------------------------------------------------- the dataset
\* The two dataset variants the CLI accepts.
DatasetChoices == {"Qiskit/qiskit_humaneval", "Qiskit/qiskit_humaneval_hard"}

\* Path(args.dataset).name
DatasetName(d) ==
    IF d = "Qiskit/qiskit_humaneval" THEN "qiskit_humaneval" ELSE "qiskit_humaneval_hard"

\* The rows the dataset collaborator serves.  The first variant has a labelled
\* row followed by an unlabelled row without task_id; the second has one
\* unlabelled row.
DatasetRows(d) ==
    IF d = "Qiskit/qiskit_humaneval"
    THEN << [task_id |-> Some(<<"qiskitHumanEval/0">>), entry_point |-> "add",
             prompt |-> <<"def add">>, test |-> <<"def check">>,
             difficulty_scale |-> Some("basic")],
            [task_id |-> None, entry_point |-> "div",
             prompt |-> <<"def div">>, test |-> <<"def check">>,
             difficulty_scale |-> None] >>
    ELSE << [task_id |-> None, entry_point |-> "slow",
             prompt |-> <<"def slow">>, test |-> <<"def check">>,
             difficulty_scale |-> None] >>

\* --max-items
LimitChoices == {NoneInt, SomeInt(0), SomeInt(1)}

\* --model
ModelChoices == {<<"gpt-4.1-mini">>}

\* a loop that breaks once i > limit
TakeCount_Inclusive(len, limit) ==
    IF limit.some /\ limit.val + 1 < len
    THEN (IF limit.val + 1 < 0 THEN 0 ELSE limit.val + 1)
    ELSE len

\* Lines 234-236: the rows appended before the loop breaks at i >= limit, or
\* runs out of rows
TakeCount(len, limit) ==
    IF limit.some /\ limit.val < len
    THEN (IF limit.val < 0 THEN 0 ELSE limit.val)
    ELSE len

\* load_tasks, given that load_dataset succeeded
load_tasks(dataset, limit) ==
    LET ds == DatasetRows(dataset)
        n == TakeCount(Len(ds), limit)
    IN [i \in 1..n |->
          [idx |-> i - 1,
           task_id |-> IF ds[i].task_id.some THEN ds[i].task_id.val
                       ELSE Digits(i - 1),
           entry_point |-> ds[i].entry_point,
           prompt |-> ds[i].prompt,
           test |-> ds[i].test,
           difficulty_scale |-> ds[i].difficulty_scale]]

\* ------------------------------------------------------------------ paths
\* now_stamp: the wall clock, to the second
now_stamp(clock) == Digits(clock)

\* str.replace('/', '_')
ReplaceSlash(s) == [i \in 1..Len(s) |-> IF s[i] = "/" THEN "_" ELSE s[i]]

\* out_root = outdir / "<dataset name>_<run_ts>_<model>"
OutRoot(dataset, ts, model) ==
    << <<"out">>, <<DatasetName(dataset), "_">> \o ts \o <<"_">> \o ReplaceSlash(model) >>

\* f"{idx:03d}"
Pad3(n) ==
    LET d == Digits(n)
    IN IF Len(d) >= 3 THEN d
       ELSE IF Len(d) = 2 THEN <<"0">> \o d ELSE <<"0", "0">> \o d

\* gen_path = gens_dir / "<idx:03d>_<entry_point>.py"
GenPath(root, t) ==
    root \o << <<"generations">>, Pad3(t.idx) \o <<"_", t.entry_point, ".py">> >>

\* Path.write_text: the file at path now holds text
WriteText(files, path, text) ==
    [p \in DOMAIN files \cup {path} |-> IF p = path THEN text ELSE files[p]]

\* Path.read_text: text mode translates "\r\n" and "\r" to "\n"
RECURSIVE read_text(_)
read_text(data) ==
    IF data = <<>> THEN <<>>
    ELSE IF Head(data) = "cr"
         THEN IF Len(data) >= 2 /\ data[2] = "nl"
              THEN <<"nl">> \o read_text(Tail(Tail(data)))
              ELSE <<"nl">> \o read_text(Tail(data))
         ELSE <<Head(data)>> \o read_text(Tail(data))

\* ------------------------------------------------------------- model call
\* What client.responses.create can do: answer, or raise one of the SDK's errors.
ApiErrors == {"APIStatusError", "APIConnectionError", "APIError"}

\* The answers of the model: the same two lines of code, bare and fenced.
RawTexts == { <<"code", "cr", "nl", "more", "nl">>,
              <<"fence", "python", "nl", "code", "cr", "nl", "more", "nl", "fence">> }

TokenCounts == {NoneInt, SomeInt(7)}

CallOutcomes ==
    [kind : {"ok"}, text : RawTexts, tok : TokenCounts]
    \cup [kind : ApiErrors, text : {<<>>}, tok : {NoneInt}]

NoCall == [kind |-> "none", text |-> <<>>, tok |-> NoneInt]

\* an except clause that names only two of the SDK's error classes
CallOpenAIWraps_Narrow(kind) == kind \in {"APIStatusError", "APIConnectionError"}

\* call_openai's except clause: the errors it turns into RuntimeError
CallOpenAIWraps(kind) == kind \in {"APIStatusError", "APIConnectionError", "APIError"}

\* what call_openai raises ("" when it returns)
CallOpenAIRaises(outcome) ==
    IF outcome.kind = "ok" THEN ""
    ELSE IF CallOpenAIWraps(outcome.kind) THEN "RuntimeError" ELSE outcome.kind

\* evaluate's except clause around call_openai
EvaluateCatches(exc) == exc = "RuntimeError"

\* call_openai's return value: the stripped output text and the token count
CallOpenAIReturns(outcome) == [text |-> Strip(outcome.text), tok |-> outcome.tok]

\* --------------------------------------------------------------- assembly
\* EXEC_TEMPLATE with its four fields filled in; "HARNESS_MAIN" stands for the
\* last six lines of the template.
EXEC_TEMPLATE(prompt, completion, test_code, entry_point) ==
    <<"# === BEGIN PROMPT (dataset) ===", "nl">> \o prompt
    \o <<"nl", "nl", "# === BEGIN MODEL COMPLETION ===", "nl">> \o completion
    \o <<"nl", "nl", "# === BEGIN TEST CODE (dataset) ===", "nl">> \o test_code
    \o <<"nl", "nl", "# === HARNESS ===", "nl", "def __run_check():", "nl",
         "ws", "# Import the solution function by name and run dataset's check()", "nl",
         "ws", "return check(", entry_point, ")", "nl", "nl", "HARNESS_MAIN", "nl">>

\* a format call that puts the test code before the completion
Assemble_Swapped(t, completion) == EXEC_TEMPLATE(t.prompt, t.test, completion, t.entry_point)

\* Lines 288-293: EXEC_TEMPLATE.format(...)
Assemble(t, completion) == EXEC_TEMPLATE(t.prompt, completion, t.test, t.entry_point)

\* ------------------------------------------------------ run_in_subprocess
\* What subprocess.run did: the child exited and its output was captured, the
\* timeout expired, or launching raised.
TimeoutError(timeout_sec) == <<"Timeout(">> \o Digits(timeout_sec) \o <<"s)">>

\* a classification that looks for the success sentinel before the timeout
Classify_SentinelFirst(status, out, exc, timeout_sec) ==
    IF Contains(Strip(out), "P") THEN [passed |-> TRUE, error |-> None]
    ELSE IF status = "timeout"
    THEN [passed |-> FALSE, error |-> Some(TimeoutError(timeout_sec))]
    ELSE IF status = "error"
    THEN [passed |-> FALSE, error |-> Some(<<"SubprocessError: ">> \o exc)]
    ELSE LET o == Strip(out)
             m == FirstAt(o, "F", 1)
         IN [passed |-> FALSE,
             error |-> Some(IF m # 0 THEN Strip(SubSeq(o, m + 1, Len(o)))
                            ELSE <<"RuntimeError: ">> \o Prefix(o, ErrLimit))]

\* a classification that looks for the failure sentinel before the success sentinel
Classify_FailFirst(status, out, exc, timeout_sec) ==
    IF status = "timeout" THEN [passed |-> FALSE, error |-> Some(TimeoutError(timeout_sec))]
    ELSE IF status = "error"
    THEN [passed |-> FALSE, error |-> Some(<<"SubprocessError: ">> \o exc)]
    ELSE LET o == Strip(out)
             m == FirstAt(o, "F", 1)
         IN IF m # 0
            THEN [passed |-> FALSE, error |-> Some(Strip(SubSeq(o, m + 1, Len(o))))]
            ELSE IF Contains(o, "P") THEN [passed |-> TRUE, error |-> None]
            ELSE [passed |-> FALSE,
                  error |-> Some(<<"RuntimeError: ">> \o Prefix(o, ErrLimit))]

\* a classification whose timeout outcome carries no error text
Classify_SilentTimeout(status, out, exc, timeout_sec) ==
    IF status = "timeout" THEN [passed |-> FALSE, error |-> None]
    ELSE IF status = "error"
    THEN [passed |-> FALSE, error |-> Some(<<"SubprocessError: ">> \o exc)]
    ELSE LET o == Strip(out)
             m == FirstAt(o, "F", 1)
         IN IF Contains(o, "P") THEN [passed |-> TRUE, error |-> None]
            ELSE [passed |-> FALSE,
                  error |-> Some(IF m # 0 THEN Strip(SubSeq(o, m + 1, Len(o)))
                                 ELSE <<"RuntimeError: ">> \o Prefix(o, ErrLimit))]

\* the classification of lines 216-226
Classify(status, out, exc, timeout_sec) ==
    IF status = "timeout" THEN [passed |-> FALSE, error |-> Some(TimeoutError(timeout_sec))]
    ELSE IF status = "error"
    THEN [passed |-> FALSE, error |-> Some(<<"SubprocessError: ">> \o exc)]
    ELSE LET o == Strip(out)
             m == FirstAt(o, "F", 1)
         IN IF Contains(o, "P") THEN [passed |-> TRUE, error |-> None]
            ELSE [passed |-> FALSE,
                  error |-> Some(IF m # 0 THEN Strip(SubSeq(o, m + 1, Len(o)))
                                 ELSE <<"RuntimeError: ">> \o Prefix(o, ErrLimit))]

\* Complete child executions the driver's tasks can have: pass, the check
\* raised, a crash before the harness, a timeout, a launch error.
ChildRuns ==
    { [status |-> "exited", out |-> <<"P", "nl">>, exc |-> <<>>],
      [status |-> "exited", out |-> <<"F", "AssertionError(", ")", "nl">>, exc |-> <<>>],
      [status |-> "exited", out |-> <<"Traceback", "nl", "SyntaxError", "nl">>, exc |-> <<>>],
      [status |-> "timeout", out |-> <<>>, exc |-> <<>>],
      [status |-> "error", out |-> <<>>, exc |-> <<"OSError(", ")">>] }

\* ------------------------------------------------------------------ state
VARIABLES
    clock,            \* the wall clock, in seconds
    runs,             \* how many times evaluate() has been started
    pc,               \* where evaluate() is
    abort_cause,      \* the exception that ended evaluate(), "" when none
    args,             \* the parsed command line of the current run
    run_ts,           \* run_ts of the current run
    dirs,             \* the directories that exist
    fs,               \* the generation files that exist, path -> content
    load_failed,      \* whether load_tasks raised in the current run
    tasks,            \* the loaded tasks
    cur,              \* the position in tasks of the loop variable t
    results,          \* the results list
    completion_text,  \* locals of the loop body
    output_tokens,
    program,
    last_call,        \* what the model call of the current task did
    calls,            \* model calls made in this run, per task
    spawned,          \* child processes launched in this run
    written,          \* generation files written in this run
    csv,              \* results.csv as this run wrote it
    summary,          \* summary.json as this run wrote it
    in_flight,        \* the model calls and child processes not yet over
    steps             \* the steps of the task loop taken in this run, in order

driverVars == <<clock, runs, pc, abort_cause, args, run_ts, dirs, fs, load_failed,
                tasks, cur, results, completion_text, output_tokens, program,
                last_call, calls, spawned, written, csv, summary, in_flight, steps>>

NoFlight == [calls |-> 0, children |-> 0]
NoCsv == [exists |-> FALSE, header |-> FALSE, rows |-> <<>>]
NoSummary == [exists |-> FALSE, pass_at_1 |-> <<0, 1>>, passed |-> 0, total |-> 0,
              by_difficulty |-> {}]

DriverInit ==
    /\ clock = 0
    /\ runs = 0
    /\ pc = "idle"
    /\ abort_cause = ""
    /\ args = [dataset |-> "Qiskit/qiskit_humaneval", model |-> <<"gpt-4.1-mini">>,
               dry_run |-> FALSE, max_items |-> NoneInt, parallel |-> 1,
               timeout_sec |-> DefaultTimeoutSec]
    /\ run_ts = <<>>
    /\ dirs = {}
    /\ fs = <<>>
    /\ load_failed = FALSE
    /\ tasks = <<>>
    /\ cur = 1
    /\ results = <<>>
    /\ completion_text = <<>>
    /\ output_tokens = NoneInt
    /\ program = <<>>
    /\ last_call = NoCall
    /\ calls = <<>>
    /\ spawned = 0
    /\ written = {}
    /\ csv = NoCsv
    /\ summary = NoSummary
    /\ in_flight = NoFlight
    /\ steps = <<>>

out_root == OutRoot(args.dataset, run_ts, args.model)
gens_dir == out_root \o << <<"generations">> >>
gen_path == GenPath(out_root, tasks[cur])

\* --parallel
ParallelChoices == {1, 2}

\* an entry of steps: the task's position in tasks and what was done
Step(i, what) == [task |-> i, step |-> what]

\* ------------------------------------------------------------- evaluate()
\* Lines 248-253: a process starts evaluate() with a parsed command line; the
\* clock may have moved on since the previous run started.
RunStart(dataset, model, dry_run, max_items, parallel, tick) ==
    /\ pc \in {"idle", "done", "aborted"}
    /\ runs < MaxRuns
    /\ runs = 0 => tick = 0
    /\ clock' = clock + tick
    /\ runs' = runs + 1
    /\ args' = [dataset |-> dataset, model |-> model, dry_run |-> dry_run,
                max_items |-> max_items, parallel |-> parallel,
                timeout_sec |-> DefaultTimeoutSec]
    /\ run_ts' = now_stamp(clock')
    /\ dirs' = dirs \cup {OutRoot(dataset, run_ts', model) \o << <<"generations">> >>}
    /\ pc' = "load"
    /\ abort_cause' = ""
    /\ load_failed' = FALSE
    /\ tasks' = <<>>
    /\ cur' = 1
    /\ results' = <<>>
    /\ completion_text' = <<>>
    /\ output_tokens' = NoneInt
    /\ program' = <<>>
    /\ last_call' = NoCall
    /\ calls' = <<>>
    /\ spawned' = 0
    /\ written' = {}
    /\ csv' = NoCsv
    /\ summary' = NoSummary
    /\ in_flight' = NoFlight
    /\ steps' = <<>>
    /\ UNCHANGED fs

\* a driver that treats a failed load as an empty dataset
AfterLoad_Continue(ok, loaded) == IF loaded = <<>> THEN "save_csv" ELSE "gen"

\* where evaluate() goes after load_tasks
AfterLoad(ok, loaded) ==
    IF ~ok THEN "aborted" ELSE IF loaded = <<>> THEN "save_csv" ELSE "gen"

\* Lines 255-258: load_tasks returns the tasks or raises.
LoadTasks(ok) ==
    /\ pc = "load"
    /\ LET loaded == IF ok THEN load_tasks(args.dataset, args.max_items) ELSE <<>>
       IN /\ tasks' = loaded
          /\ calls' = [i \in 1..Len(loaded) |-> 0]
          /\ pc' = AfterLoad(ok, loaded)
    /\ load_failed' = ~ok
    /\ abort_cause' = IF ok THEN "" ELSE "load_dataset"
    /\ results' = <<>>
    /\ UNCHANGED <<clock, runs, args, run_ts, dirs, fs, cur, completion_text,
                   output_tokens, program, last_call, spawned, written, csv, summary,
                   in_flight, steps>>

\* a reuse test that forgets the --dry-run flag
UseCache_NoFlag(dry_run, path, files) == path \in DOMAIN files

\* Line 265: args.dry_run and gen_path.exists()
UseCache(dry_run, path, files) == dry_run /\ path \in DOMAIN files

\* Lines 261-271: the loop body up to the cached completion or the model call.
BeginTask ==
    /\ pc = "gen"
    /\ IF UseCache(args.dry_run, gen_path, fs)
       THEN /\ completion_text' = read_text(fs[gen_path])
            /\ output_tokens' = NoneInt
            /\ pc' = "assemble"
            /\ steps' = Append(steps, Step(cur, "obtain"))
            /\ UNCHANGED <<calls, in_flight>>
       ELSE /\ calls' = [calls EXCEPT ![cur] = @ + 1]
            /\ in_flight' = [in_flight EXCEPT !.calls = @ + 1]
            /\ steps' = Append(steps, Step(cur, "call"))
            /\ pc' = "calling"
            /\ UNCHANGED <<completion_text, output_tokens>>
    /\ UNCHANGED <<clock, runs, abort_cause, args, run_ts, dirs, fs, load_failed, tasks,
                   cur, results, program, last_call, spawned, written, csv, summary>>

\* Lines 271-285: the model call ends; the completion is extracted and saved.
CallReturn(outcome) ==
    /\ pc = "calling"
    /\ last_call' = outcome
    /\ in_flight' = [in_flight EXCEPT !.calls = @ - 1]
    /\ LET exc == CallOpenAIRaises(outcome)
           raw == IF exc = "" THEN CallOpenAIReturns(outcome)
                  ELSE [text |-> <<>>, tok |-> NoneInt]
           code == extract_code_only(raw.text)
       IN IF exc # "" /\ ~EvaluateCatches(exc)
          THEN /\ pc' = "aborted"
               /\ abort_cause' = exc
               /\ UNCHANGED <<completion_text, output_tokens, fs, written, steps>>
          ELSE /\ completion_text' = code
               /\ output_tokens' = raw.tok
               /\ fs' = WriteText(fs, gen_path, code)
               /\ written' = written \cup {gen_path}
               /\ steps' = steps \o <<Step(cur, "obtain"), Step(cur, "save")>>
               /\ pc' = "assemble"
               /\ UNCHANGED abort_cause
    /\ UNCHANGED <<clock, runs, args, run_ts, dirs, load_failed, tasks, cur, results,
                   program, calls, spawned, csv, summary>>

\* Lines 288-297: the program is assembled and run_in_subprocess starts.
ExecStart ==
    /\ pc = "assemble"
    /\ program' = Assemble(tasks[cur], completion_text)
    /\ spawned' = spawned + 1
    /\ in_flight' = [in_flight EXCEPT !.children = @ + 1]
    /\ steps' = steps \o <<Step(cur, "assemble"), Step(cur, "execute")>>
    /\ pc' = "executing"
    /\ UNCHANGED <<clock, runs, abort_cause, args, run_ts, dirs, fs, load_failed, tasks,
                   cur, results, completion_text, output_tokens, last_call, calls,
                   written, csv, summary>>

\* Lines 301-313
MakeResult(t, ret) ==
    [task_id |-> t.task_id,
     entry_point |-> t.entry_point,
     passed |-> ret.passed,
     error |-> ret.error,
     gen_tokens |-> output_tokens,
     prompt_chars |-> Len(t.prompt),
     completion_chars |-> Len(completion_text),
     difficulty_scale |-> t.difficulty_scale,
     model |-> args.model,
     file_path |-> gen_path]

\* results.insert(0, res)
Record_Prepend(rs, res) == <<res>> \o rs

\* Line 314: results.append(res)
Record(rs, res) == Append(rs, res)

\* a launch that does not wait for the child: the child is still there
Waited_Not(children) == children

\* subprocess.run returns when the child has ended or been killed
Waited(children) == children - 1

\* Lines 297-315: run_in_subprocess returns and the Result is recorded.
ExecFinish(run) ==
    /\ pc = "executing"
    /\ LET ret == Classify(run.status, run.out, run.exc, args.timeout_sec)
       IN results' = Record(results, MakeResult(tasks[cur], ret))
    /\ in_flight' = [in_flight EXCEPT !.children = Waited(@)]
    /\ steps' = Append(steps, Step(cur, "record"))
    /\ cur' = cur + 1
    /\ pc' = IF cur + 1 > Len(tasks) THEN "save_csv" ELSE "gen"
    /\ last_call' = NoCall
    /\ UNCHANGED <<clock, runs, abort_cause, args, run_ts, dirs, fs, load_failed, tasks,
                   completion_text, output_tokens, program, calls, spawned,
                   written, csv, summary>>

\* Lines 325-328: the rows written to results.csv, in writing order
CsvRows(rs) == rs

\* Lines 318-328: the counts, then results.csv.  Opening the file creates it;
\* results[0] raises IndexError on an empty list, before the header is written.
SaveCsv ==
    /\ pc = "save_csv"
    /\ IF results = <<>>
       THEN /\ csv' = [exists |-> TRUE, header |-> FALSE, rows |-> <<>>]
            /\ pc' = "aborted"
            /\ abort_cause' = "IndexError"
       ELSE /\ csv' = [exists |-> TRUE, header |-> TRUE, rows |-> CsvRows(results)]
            /\ pc' = "save_summary"
            /\ UNCHANGED abort_cause
    /\ UNCHANGED <<clock, runs, args, run_ts, dirs, fs, load_failed, tasks, cur, results,
                   completion_text, output_tokens, program, last_call, calls, spawned,
                   written, summary,
                   in_flight, steps>>

\* {r.difficulty_scale for r in results}
Labels(rs) == {rs[i].difficulty_scale : i \in 1..Len(rs)}

\* sorted() compares the labels pairwise: None against a string raises TypeError
SortedRaises(labels) == \E a, b \in labels : a.some # b.some

\* sum(1 for r in results if ...)
CountPassed(rs) == Cardinality({i \in 1..Len(rs) : rs[i].passed})
CountLabel(rs, k) == Cardinality({i \in 1..Len(rs) : rs[i].difficulty_scale = k})
\* a per-label count that forgets the label
CountPassedLabel_Any(rs, k) == CountPassed(rs)

CountPassedLabel(rs, k) ==
    Cardinality({i \in 1..Len(rs) : rs[i].passed /\ rs[i].difficulty_scale = k})

\* json.dumps renders a None key as "null"
JsonKey(k) == IF k.some THEN k.val ELSE "null"

\* Lines 318-320 and 331-346: the summary document.  pass_at_1 is the pair
\* <<numerator, denominator>>, <<0, 1>> standing for 0.0.
Summarize(rs) ==
    [exists |-> TRUE,
     pass_at_1 |-> IF Len(rs) # 0 THEN <<CountPassed(rs), Len(rs)>> ELSE <<0, 1>>,
     passed |-> CountPassed(rs),
     total |-> Len(rs),
     by_difficulty |-> {[key |-> JsonKey(k), passed |-> CountPassedLabel(rs, k),
                         total |-> CountLabel(rs, k)] : k \in Labels(rs)}]

\* Lines 331-351: the summary is built and written.
SaveSummary ==
    /\ pc = "save_summary"
    /\ IF SortedRaises(Labels(results))
       THEN /\ pc' = "aborted"
            /\ abort_cause' = "TypeError"
            /\ UNCHANGED summary
       ELSE /\ summary' = Summarize(results)
            /\ pc' = "done"
            /\ UNCHANGED abort_cause
    /\ UNCHANGED <<clock, runs, args, run_ts, dirs, fs, load_failed, tasks, cur, results,
                   completion_text, output_tokens, program, last_call, calls, spawned,
                   written, csv,
                   in_flight, steps>>

\* ------------------------------------ run_in_subprocess, step by step
VARIABLES
    x_pc,        \* where run_in_subprocess is
    x_timeout,   \* timeout_sec
    x_tmp,       \* the temporary files that exist
    x_child,     \* the child process: "none", "running", "exited", "killed"
    x_stage,     \* where the child's program is
    x_out,       \* what the child has written to the captured pipe
    x_check,     \* what check(entry_point) did: "", "returned", "raised", "exit"
    x_repr,      \* repr(e) of the exception check raised
    x_exc,       \* repr(e) of the exception subprocess.run raised
    x_timer,     \* seconds waited
    x_status,    \* how subprocess.run ended: "", "exited", "timeout", "error"
    x_ret        \* the returned (passed, error)

execVars == <<x_pc, x_timeout, x_tmp, x_child, x_stage, x_out, x_check, x_repr,
              x_exc, x_timer, x_status, x_ret>>

NoRet == [passed |-> FALSE, error |-> None]

ExecIdle ==
    /\ x_pc = "idle"
    /\ x_timeout = 1
    /\ x_tmp = {}
    /\ x_child = "none"
    /\ x_stage = ""
    /\ x_out = <<>>
    /\ x_check = ""
    /\ x_repr = <<>>
    /\ x_exc = <<>>
    /\ x_timer = 0
    /\ x_status = ""
    /\ x_ret = NoRet

\* run_in_subprocess(code, timeout_sec) is called
ExecInit ==
    /\ x_pc = "start"
    /\ x_timeout \in 1..MaxTimeout
    /\ x_tmp = {}
    /\ x_child = "none"
    /\ x_stage = ""
    /\ x_out = <<>>
    /\ x_check = ""
    /\ x_repr = <<>>
    /\ x_exc = <<>>
    /\ x_timer = 0
    /\ x_status = ""
    /\ x_ret = NoRet

\* a text longer than the slice of line 226 keeps
LongText == [i \in 1..(ErrLimit + 2) |-> "x"]

\* What the prompt, completion and test code may print before check is called
BodyOutputs == { <<>>, <<"P", "nl">>, <<"F", "junk", "nl">> }

\* What they may print before an uncaught error ends the child
CrashOutputs == BodyOutputs \cup {LongText}

\* repr(e) of the exceptions check may raise
Reprs == { <<"ValueError(", "x", ")">>,
           <<"AssertionError(", "P", ")">>,
           <<"ValueError(", "x", "nl", "y", ")">> }

\* the directory tempfile.TemporaryDirectory() made, and the program file
TempDir == <<"td">>
SrcPath == TempDir \o <<"eval_task.py">>

\* a directory made with mkdtemp that nobody removes
Cleanup_Leave(tmp, td) == tmp

\* TemporaryDirectory.__exit__: the directory goes with everything under it
Cleanup(tmp, td) == {q \in tmp : Len(q) < Len(td) \/ SubSeq(q, 1, Len(td)) # td}

\* Line 202: the with block is entered
EnterTemp ==
    /\ x_pc = "start"
    /\ x_tmp' = x_tmp \cup {TempDir}
    /\ x_pc' = "write"
    /\ UNCHANGED <<x_timeout, x_child, x_stage, x_out, x_check, x_repr, x_exc, x_timer,
                   x_status, x_ret>>

\* Lines 203-204: eval_task.py is written, or write_text raises (the file
\* then created or not) and the exception leaves the with block.
WriteProgram(ok, created) ==
    /\ x_pc = "write"
    /\ IF ok
       THEN /\ created
            /\ x_tmp' = x_tmp \cup {SrcPath}
            /\ x_pc' = "launch"
       ELSE /\ x_tmp' = Cleanup(IF created THEN x_tmp \cup {SrcPath} ELSE x_tmp, TempDir)
            /\ x_pc' = "raised"
    /\ UNCHANGED <<x_timeout, x_child, x_stage, x_out, x_check, x_repr, x_exc, x_timer,
                   x_status, x_ret>>

\* Lines 208-215 and 218: subprocess.run starts the child, or raises
Launch(ok) ==
    /\ x_pc = "launch"
    /\ IF ok
       THEN /\ x_child' = "running"
            /\ x_stage' = "body"
            /\ x_pc' = "waiting"
            /\ UNCHANGED <<x_status, x_exc>>
       ELSE /\ x_status' = "error"
            /\ x_exc' = <<"OSError(", ")">>
            /\ x_pc' = "classify"
            /\ UNCHANGED <<x_child, x_stage>>
    /\ UNCHANGED <<x_timeout, x_tmp, x_out, x_check, x_repr, x_timer, x_ret>>

\* Lines 173-180 of the template run: the prompt, the completion and the test
\* code execute; an uncaught error prints a traceback and ends the child.
ChildBody(text, crash) ==
    /\ x_child = "running"
    /\ x_stage = "body"
    /\ IF crash
       THEN /\ x_out' = x_out \o text \o <<"Traceback", "nl">>
            /\ x_child' = "exited"
            /\ x_stage' = "dead"
       ELSE /\ x_out' = x_out \o text
            /\ x_stage' = "check"
            /\ UNCHANGED x_child
    /\ UNCHANGED <<x_pc, x_timeout, x_tmp, x_check, x_repr, x_exc, x_timer, x_status,
                   x_ret>>

\* Lines 188-191: __run_check() returns, raises an Exception, or leaves the
\* process through an exception that "except Exception" does not catch.
ChildCheck(how, r) ==
    /\ x_child = "running"
    /\ x_stage = "check"
    /\ x_check' = how
    /\ IF how = "raised" THEN x_repr' = r ELSE x_repr' = <<>>
    /\ IF how = "exit"
       THEN x_child' = "exited" /\ x_stage' = "dead"
       ELSE x_stage' = how /\ UNCHANGED x_child
    /\ UNCHANGED <<x_pc, x_timeout, x_tmp, x_out, x_exc, x_timer, x_status, x_ret>>

\* Lines 190 and 192: the sentinel the harness prints
HarnessPrint(how, r) ==
    IF how = "returned" THEN <<"P", "nl">> ELSE <<"F">> \o r \o <<"nl">>

\* Lines 190 and 192
ChildPrint ==
    /\ x_child = "running"
    /\ x_stage \in {"returned", "raised"}
    /\ x_out' = x_out \o HarnessPrint(x_stage, x_repr)
    /\ x_stage' = "epilogue"
    /\ UNCHANGED <<x_pc, x_timeout, x_tmp, x_child, x_check, x_repr, x_exc, x_timer,
                   x_status, x_ret>>

\* the program ends
ChildExit ==
    /\ x_child = "running"
    /\ x_stage = "epilogue"
    /\ x_child' = "exited"
    /\ x_stage' = "dead"
    /\ UNCHANGED <<x_pc, x_timeout, x_tmp, x_out, x_check, x_repr, x_exc, x_timer,
                   x_status, x_ret>>

\* Line 212: a second of the wait passes
Tick ==
    /\ x_pc = "waiting"
    /\ x_child = "running"
    /\ x_timer < x_timeout
    /\ x_timer' = x_timer + 1
    /\ UNCHANGED <<x_pc, x_timeout, x_tmp, x_child, x_stage, x_out, x_check, x_repr,
                   x_exc, x_status, x_ret>>

\* a wait that raises on expiry and leaves the child alone
AfterTimeout_NoKill(child) == child

\* subprocess.run on expiry: it kills the child and waits for it before raising
AfterTimeout(child) == "killed"

\* Lines 212 and 216: the timeout expires with the child still running
TimeoutExpired ==
    /\ x_pc = "waiting"
    /\ x_child = "running"
    /\ x_timer = x_timeout
    /\ x_child' = AfterTimeout(x_child)
    /\ x_status' = "timeout"
    /\ x_pc' = "classify"
    /\ UNCHANGED <<x_timeout, x_tmp, x_stage, x_out, x_check, x_repr, x_exc, x_timer,
                   x_ret>>

\* Lines 208-215: subprocess.run returns the completed process
Reap ==
    /\ x_pc = "waiting"
    /\ x_child = "exited"
    /\ x_status' = "exited"
    /\ x_pc' = "classify"
    /\ UNCHANGED <<x_timeout, x_tmp, x_child, x_stage, x_out, x_check, x_repr, x_exc,
                   x_timer, x_ret>>

\* Lines 216-226: the outcome is returned; leaving the with block removes the
\* temporary directory.
Return ==
    /\ x_pc = "classify"
    /\ x_ret' = Classify(x_status, x_out, x_exc, x_timeout)
    /\ x_tmp' = Cleanup(x_tmp, TempDir)
    /\ x_pc' = "returned"
    /\ UNCHANGED <<x_timeout, x_child, x_stage, x_out, x_check, x_repr, x_exc, x_timer,
                   x_status>>

\* the steps of the parent process
ExecParent ==
    \/ EnterTemp
    \/ \E ok, created \in BOOLEAN : WriteProgram(ok, created)
    \/ \E ok \in BOOLEAN : Launch(ok)
    \/ Tick
    \/ TimeoutExpired
    \/ Reap
    \/ Return

\* ------------------------- run_in_subprocess called by several callers
\* the callers, each calling run_in_subprocess again and again
Callers == {"c1", "c2"}

\* the random names tempfile may draw for a directory
TempNames == {"tmpA", "tmpB"}

VARIABLES
    t_pc,      \* per caller: "idle", "entered", "written"
    t_td,      \* per caller: td of its with block
    t_fs,      \* the paths that exist below the temporary root
    t_calls    \* the calls made so far: the src of each, and whether it is still in progress

tempVars == <<t_pc, t_td, t_fs, t_calls>>

TempIdle ==
    /\ t_pc = [c \in Callers |-> "idle"]
    /\ t_td = [c \in Callers |-> <<>>]
    /\ t_fs = {}
    /\ t_calls = <<>>

\* a name generator that never looks at what exists
Mkdtemp_Blind(existing) == {<<n>> : n \in TempNames}

\* tempfile.mkdtemp: a random name under which no path exists yet
Mkdtemp(existing) == {<<n>> : n \in TempNames} \ existing

\* Line 202 in one caller
TempEnter(c, td) ==
    /\ t_pc[c] = "idle"
    /\ Len(t_calls) < MaxCalls
    /\ td \in Mkdtemp(t_fs)
    /\ t_fs' = t_fs \cup {td}
    /\ t_td' = [t_td EXCEPT ![c] = td]
    /\ t_calls' = Append(t_calls, [caller |-> c, src |-> td \o <<"eval_task.py">>,
                                   running |-> TRUE])
    /\ t_pc' = [t_pc EXCEPT ![c] = "entered"]

\* Lines 203-204 in one caller
TempWrite(c) ==
    /\ t_pc[c] = "entered"
    /\ t_fs' = t_fs \cup {t_td[c] \o <<"eval_task.py">>}
    /\ t_pc' = [t_pc EXCEPT ![c] = "written"]
    /\ UNCHANGED <<t_td, t_calls>>

\* Lines 206-226 in one caller: the call ends and the with block is left
TempExit(c) ==
    /\ t_pc[c] = "written"
    /\ t_fs' = Cleanup(t_fs, t_td[c])
    /\ t_calls' = [i \in DOMAIN t_calls |->
                     IF t_calls[i].caller = c
                     THEN [t_calls[i] EXCEPT !.running = FALSE] ELSE t_calls[i]]
    /\ t_td' = [t_td EXCEPT ![c] = <<>>]
    /\ t_pc' = [t_pc EXCEPT ![c] = "idle"]

\* --------------------------------------------------------- specifications
\* ------------------------------------------------- single function calls
\* --model as the command line accepts it: any string, a "/" or a "_" in it
\* included
ModelIds == ModelChoices \cup {<<"org", "/", "m">>, <<"org", "_", "m">>}

VARIABLES
    f_op,     \* the function called
    f_in,     \* its arguments
    f_out,    \* what it returned
    f_done    \* the call has been made

funVars == <<f_op, f_in, f_out, f_done>>

FunIdle == f_op = "none" /\ f_in = <<>> /\ f_out = <<>> /\ f_done = FALSE

\* Two runs given the same --outdir: each its dataset, its model and the
\* second its now_stamp() was taken in.
RunArgs == [dataset : DatasetChoices, clock : 0..MaxStamp, model : ModelIds]

\* the difficulty labels a dataset row may carry, None for a row without one
DifficultyLabels == {Some("basic"), Some("intermediate"), None}

\* the part of a Result the summary reads
ResultChoices == [passed : BOOLEAN, difficulty_scale : DifficultyLabels]

\* results as the task loop may leave it
ResultLists == UNION {[1..n -> ResultChoices] : n \in 0..MaxResults}

\* --max-items as argparse accepts it: absent, or any integer
LoadLimits == {NoneInt} \cup {SomeInt(k) : k \in (0 - 1)..MaxLimit}

\* the texts of up to MaxCodeLen tokens: prompts, completions, test code
SourceTexts == UNION {[1..n -> {"x", "nl"}] : n \in 0..MaxCodeLen}

\* what the model may answer, up to MaxRawLen tokens: code, newlines, fences,
\* and the words "python" and "py" that may follow an opening fence
RawResponses == UNION {[1..n -> {"fence", "python", "py", "nl", "x"}] : n \in 0..MaxRawLen}

FunInit ==
    /\ f_done = FALSE
    /\ f_out = <<>>
    /\ \/ f_op = "out_root" /\ f_in \in [a : RunArgs, b : RunArgs]
       \/ f_op = "summary" /\ f_in \in ResultLists
       \/ f_op = "load_tasks" /\ f_in \in [dataset : DatasetChoices, limit : LoadLimits]
       \/ f_op = "extract" /\ f_in \in RawResponses
       \/ f_op = "assemble"
          /\ f_in \in [t : [prompt : SourceTexts, test : SourceTexts, entry_point : {"add"}],
                        completion : SourceTexts]

\* evaluate(), its first two lines, in each of the two runs
NameRuns ==
    /\ f_op = "out_root" /\ ~f_done
    /\ f_out' = [a |-> OutRoot(f_in.a.dataset, now_stamp(f_in.a.clock), f_in.a.model),
                 b |-> OutRoot(f_in.b.dataset, now_stamp(f_in.b.clock), f_in.b.model)]
    /\ f_done' = TRUE
    /\ UNCHANGED <<f_op, f_in>>

vars == <<driverVars, execVars, funVars, tempVars>>

Init == DriverInit /\ ExecIdle /\ FunIdle /\ TempIdle

Next ==
    \/ (\E d \in DatasetChoices, m \in ModelChoices, dry \in BOOLEAN,
           lim \in LimitChoices, par \in ParallelChoices, tick \in {0, 1} :
           RunStart(d, m, dry, lim, par, tick))
       /\ UNCHANGED <<execVars, funVars, tempVars>>
    \/ (\E ok \in BOOLEAN : LoadTasks(ok)) /\ UNCHANGED <<execVars, funVars, tempVars>>
    \/ BeginTask /\ UNCHANGED <<execVars, funVars, tempVars>>
    \/ (\E o \in CallOutcomes : CallReturn(o)) /\ UNCHANGED <<execVars, funVars, tempVars>>
    \/ ExecStart /\ UNCHANGED <<execVars, funVars, tempVars>>
    \/ (\E r \in ChildRuns : ExecFinish(r)) /\ UNCHANGED <<execVars, funVars, tempVars>>
    \/ SaveCsv /\ UNCHANGED <<execVars, funVars, tempVars>>
    \/ SaveSummary /\ UNCHANGED <<execVars, funVars, tempVars>>

\* The driver: evaluate() started up to MaxRuns times on one file system.
Spec == Init /\ [][Next]_vars

InitExec == DriverInit /\ ExecInit /\ FunIdle /\ TempIdle

NextExec ==
    \/ EnterTemp /\ UNCHANGED <<driverVars, funVars, tempVars>>
    \/ (\E ok, created \in BOOLEAN : WriteProgram(ok, created))
       /\ UNCHANGED <<driverVars, funVars, tempVars>>
    \/ (\E ok \in BOOLEAN : Launch(ok)) /\ UNCHANGED <<driverVars, funVars, tempVars>>
    \/ Tick /\ UNCHANGED <<driverVars, funVars, tempVars>>
    \/ TimeoutExpired /\ UNCHANGED <<driverVars, funVars, tempVars>>
    \/ Reap /\ UNCHANGED <<driverVars, funVars, tempVars>>
    \/ Return /\ UNCHANGED <<driverVars, funVars, tempVars>>
    \/ (\E crash \in BOOLEAN :
           \E text \in (IF crash THEN CrashOutputs ELSE BodyOutputs) : ChildBody(text, crash))
       /\ UNCHANGED <<driverVars, funVars, tempVars>>
    \/ (\E how \in {"returned", "raised", "exit"}, r \in Reprs : ChildCheck(how, r))
       /\ UNCHANGED <<driverVars, funVars, tempVars>>
    \/ ChildPrint /\ UNCHANGED <<driverVars, funVars, tempVars>>
    \/ ChildExit /\ UNCHANGED <<driverVars, funVars, tempVars>>

\* One call of run_in_subprocess, with the child's steps.
SpecExec == InitExec /\ [][NextExec]_vars

\* The parent's steps and the clock go on; the child need not make progress.
LiveExec == SpecExec /\ WF_vars(ExecParent /\ UNCHANGED <<driverVars, funVars, tempVars>>)

\* evaluate() from line 317 on, for the results in f_in: results.csv, then
\* the summary, or the exception that ends the run before it is written
Persist ==
    /\ f_op = "summary" /\ ~f_done
    /\ f_out' = IF f_in = <<>> \/ SortedRaises(Labels(f_in))
                THEN NoSummary ELSE Summarize(f_in)
    /\ f_done' = TRUE
    /\ UNCHANGED <<f_op, f_in>>

\* Line 255, the load succeeding
LoadCall ==
    /\ f_op = "load_tasks" /\ ~f_done
    /\ f_out' = load_tasks(f_in.dataset, f_in.limit)
    /\ f_done' = TRUE
    /\ UNCHANGED <<f_op, f_in>>

\* Lines 288-293
AssembleCall ==
    /\ f_op = "assemble" /\ ~f_done
    /\ f_out' = Assemble(f_in.t, f_in.completion)
    /\ f_done' = TRUE
    /\ UNCHANGED <<f_op, f_in>>

\* Line 284, and the same function applied to what it returned
ExtractCall ==
    /\ f_op = "extract" /\ ~f_done
    /\ f_out' = [once |-> extract_code_only(f_in),
                 twice |-> extract_code_only(extract_code_only(f_in))]
    /\ f_done' = TRUE
    /\ UNCHANGED <<f_op, f_in>>

InitFun == DriverInit /\ ExecIdle /\ FunInit /\ TempIdle

NextFun ==
    \/ NameRuns /\ UNCHANGED <<driverVars, execVars, tempVars>>
    \/ Persist /\ UNCHANGED <<driverVars, execVars, tempVars>>
    \/ LoadCall /\ UNCHANGED <<driverVars, execVars, tempVars>>
    \/ AssembleCall /\ UNCHANGED <<driverVars, execVars, tempVars>>
    \/ ExtractCall /\ UNCHANGED <<driverVars, execVars, tempVars>>

\* One call of one function on arguments drawn from a bounded set.
SpecFun == InitFun /\ [][NextFun]_vars

InitTemp == DriverInit /\ ExecIdle /\ FunIdle /\ TempIdle

NextTemp ==
    \/ (\E c \in Callers, td \in Mkdtemp(t_fs) : TempEnter(c, td))
       /\ UNCHANGED <<driverVars, execVars, funVars>>
    \/ (\E c \in Callers : TempWrite(c)) /\ UNCHANGED <<driverVars, execVars, funVars>>
    \/ (\E c \in Callers : TempExit(c)) /\ UNCHANGED <<driverVars, execVars, funVars>>

\* run_in_subprocess called up to MaxCalls times by callers that may overlap.
SpecTemp == InitTemp /\ [][NextTemp]_vars

\* ---------------------------------------------------------------- claims
\* sub occurs in s as a contiguous piece
IsSubstring(sub, s) ==
    \E i \in 0..(Len(s) - Len(sub)) : SubSeq(s, i + 1, i + Len(sub)) = sub

IsPrefix(a, b) == Len(a) <= Len(b) /\ SubSeq(b, 1, Len(a)) = a

RunEnded == pc \in {"done", "aborted"}

\* run_in_subprocess has returned its outcome or let an exception through
ExecEnded == x_pc \in {"returned", "raised"}

\* C1: whenever the dataset loaded, a run that has ended has run to the end and
\* has written results.csv and summary.json; nothing but a dataset-load
\* failure aborts it.
C1_RunCompletes ==
    (RunEnded /\ ~load_failed) =>
        (pc = "done" /\ abort_cause = "" /\ csv.header /\ summary.exists)

\* C2: when the child exited before the timeout and check raised inside the
\* harness, the outcome is not passed and its error text contains the
\* exception's repr, whatever else was written to the captured output.
C2_CheckRaisedReported ==
    (x_pc = "returned" /\ x_status = "exited" /\ x_check = "raised") =>
        (~x_ret.passed /\ x_ret.error.some /\ IsSubstring(x_repr, x_ret.error.val))

\* C3: when the program ran without error, check returned and the child exited
\* within the timeout, the outcome is passed with no error.
C3_CheckReturnedPasses ==
    (x_pc = "returned" /\ x_status = "exited" /\ x_check = "returned") =>
        x_ret = [passed |-> TRUE, error |-> None]

C3_Witness ==
    /\ x_pc = "returned" /\ x_status = "exited" /\ x_check = "returned"
    /\ Contains(x_out, "F")
    /\ x_ret.passed

\* C4: a child still running when the timeout expires gives the outcome not
\* passed with error Timeout(<timeout_sec>s), whatever sentinel it had already
\* written.
C4_TimeoutFirst ==
    /\ [][(x_pc = "waiting" /\ x_child = "running" /\ x_timer = x_timeout
           /\ x_pc' # "waiting") => x_status' = "timeout"]_vars
    /\ []((x_pc = "returned" /\ x_status = "timeout") =>
             x_ret = [passed |-> FALSE, error |-> Some(TimeoutError(x_timeout))])

C4_Witness ==
    /\ x_pc = "returned" /\ x_status = "timeout"
    /\ Contains(x_out, "P")
    /\ x_ret.error = Some(TimeoutError(x_timeout))

\* C5: every call of run_in_subprocess comes back to its caller, and when it
\* has, the child it started is no longer running.
C5_ReturnsChildGone ==
    /\ <>ExecEnded
    /\ [](ExecEnded => x_child # "running")

C5_Witness ==
    /\ x_pc = "returned" /\ x_child = "killed"
    /\ x_stage = "body"

\* C6: a model call that fails with an API error never aborts the run; it
\* leaves an empty completion with unknown token count, saved as the task's
\* artifact, and the task is executed and gets its Result before the driver
\* moves on.
C6_ModelCallErrorRecovered ==
    /\ [](abort_cause \notin (ApiErrors \cup {"RuntimeError"}))
    /\ []((pc \in {"assemble", "executing"} /\ last_call.kind \in ApiErrors) =>
             /\ completion_text = <<>>
             /\ output_tokens = NoneInt
             /\ gen_path \in DOMAIN fs
             /\ fs[gen_path] = <<>>
             /\ gen_path \in written)
    /\ [][(pc = "calling" /\ pc' # "calling") => pc' = "assemble"]_vars
    /\ [][(pc = "executing" /\ last_call.kind \in ApiErrors /\ pc' # "executing") =>
             /\ Len(results') = Len(results) + 1
             /\ results'[cur].task_id = tasks[cur].task_id
             /\ results'[cur].completion_chars = 0
             /\ results'[cur].gen_tokens = NoneInt
             /\ pc' \in {"gen", "save_csv"}
             /\ cur' = cur + 1]_vars

C6_Witness ==
    /\ pc = "assemble" /\ cur = 2
    /\ calls[1] = 1 /\ results[1].completion_chars = 0 /\ results[1].gen_tokens = NoneInt
    /\ GenPath(out_root, tasks[1]) \in written

\* C7: when load_tasks fails the run is aborted with no model call made, no
\* child launched, no completion file written and neither results.csv nor
\* summary.json produced.
C7_LoadFailureAborts ==
    load_failed =>
        /\ pc = "aborted"
        /\ tasks = <<>> /\ results = <<>>
        /\ \A i \in DOMAIN calls : calls[i] = 0
        /\ spawned = 0
        /\ written = {}
        /\ ~csv.exists
        /\ ~summary.exists

C7_Witness == load_failed /\ pc = "aborted" /\ runs = MaxRuns /\ DOMAIN fs # {}

\* C8: the results list is always a prefix of the task sequence, entry i
\* belonging to task i; it only grows by appending; after the loop it has one
\* entry per task; and the rows of results.csv are the results in that order.
C8_ResultsInTaskOrder ==
    /\ [](/\ Len(results) <= Len(tasks)
          /\ \A i \in 1..Len(results) :
                /\ results[i].task_id = tasks[i].task_id
                /\ results[i].entry_point = tasks[i].entry_point
                /\ results[i].file_path = GenPath(out_root, tasks[i]))
    /\ []((pc \in {"save_csv", "save_summary", "done"} \/ (pc = "aborted" /\ ~load_failed))
             => Len(results) = Len(tasks))
    /\ [](csv.header => csv.rows = results)
    /\ [][runs' = runs => IsPrefix(results, results')]_vars

C8_Witness ==
    /\ pc = "save_summary"
    /\ Len(tasks) = 2 /\ Len(results) = 2
    /\ csv.header /\ Len(csv.rows) = 2
    /\ results[1].passed # results[2].passed

\* an artifact for task t saved under the same dataset, model and output
\* directory flags, by a run with any start time
EarlierArtifact(t) ==
    \E c \in 0..clock :
        GenPath(OutRoot(args.dataset, now_stamp(c), args.model), t) \in DOMAIN fs

\* C9: a run in reuse mode makes no model call for a task whose completion
\* artifact an earlier run with the same flags saved.
C9_ReuseAcrossRuns ==
    (pc = "calling" /\ args.dry_run) => ~EarlierArtifact(tasks[cur])

C11_DistinctRunDirs ==
    (f_op = "out_root" /\ f_done
       /\ (f_in.a.model # f_in.b.model \/ f_in.a.clock # f_in.b.clock))
    => f_out.a # f_out.b

\* C12: when run_in_subprocess has finished, by whichever way out (pass,
\* failure sentinel, no sentinel, timeout, launch error, or an exception from
\* writing the program file), neither eval_task.py nor its temporary directory
\* exists.
C12_TempGone ==
    ExecEnded => (SrcPath \notin x_tmp /\ TempDir \notin x_tmp)

C12_Witness ==
    /\ x_pc = "raised"
    /\ x_tmp = {}

\* C13 as stated: no two calls of run_in_subprocess, one after the other or
\* overlapping, ever have the same program file path.
C13_NeverSamePath ==
    \A i, j \in DOMAIN t_calls : i # j => t_calls[i].src # t_calls[j].src

\* C13: no two calls of run_in_subprocess that are in progress at the same
\* time have the same program file path, although each names its file
\* eval_task.py.
C13_NoSharedPath ==
    \A i, j \in DOMAIN t_calls :
        /\ t_calls[i].src[Len(t_calls[i].src)] = "eval_task.py"
        /\ (i # j /\ t_calls[i].running /\ t_calls[j].running)
           => t_calls[i].src # t_calls[j].src

C13_Witness ==
    \E i, j \in DOMAIN t_calls :
        /\ i # j /\ t_calls[i].running /\ t_calls[j].running
        /\ t_calls[i].src \in t_fs /\ t_calls[j].src \in t_fs

\* C14: when the child exited within the timeout and its output holds neither
\* sentinel, the outcome is a failure whose error is "RuntimeError: " followed
\* by the first ErrLimit characters of the stripped output, and by all of it
\* when it is shorter: the error never grows beyond that.
C14_RawOutputTruncated ==
    (x_pc = "returned" /\ x_status = "exited"
       /\ ~Contains(x_out, "P") /\ ~Contains(x_out, "F"))
    => LET o == Strip(x_out)
           e == x_ret.error.val
       IN /\ ~x_ret.passed
          /\ x_ret.error.some
          /\ Len(e) = 1 + (IF Len(o) < ErrLimit THEN Len(o) ELSE ErrLimit)
          /\ e[1] = "RuntimeError: "
          /\ \A i \in 2..Len(e) : e[i] = o[i - 1]

C14_Witness ==
    /\ x_pc = "returned" /\ x_status = "exited"
    /\ ~Contains(x_out, "P") /\ ~Contains(x_out, "F")
    /\ Len(Strip(x_out)) > ErrLimit
    /\ Len(x_ret.error.val) = ErrLimit + 1

\* C15: a run whose dataset loaded with no task at all ends with a summary
\* that reports total 0, passed 0 and pass_at_1 0.0, and with no error.
C15_EmptyRunSummary ==
    (RunEnded /\ ~load_failed /\ tasks = <<>>)
    => /\ pc = "done"
       /\ summary.exists
       /\ summary.total = 0 /\ summary.passed = 0
       /\ summary.pass_at_1 = <<0, 1>>

\* the bucket a task's difficulty label belongs to; the missing label has the
\* bucket written for None
BucketOf(t) == JsonKey(t.difficulty_scale)

\* C16: whatever tasks were loaded, the summary's by_difficulty has exactly
\* one key per distinct difficulty label among them, the tasks without a label
\* being counted in the bucket of None; also when some tasks have a label and
\* others have none.
C16_OneBucketPerLabel ==
    (RunEnded /\ ~load_failed /\ tasks # <<>>)
    => /\ summary.exists
       /\ {e.key : e \in summary.by_difficulty}
            = {BucketOf(tasks[i]) : i \in DOMAIN tasks}
       /\ \A e1, e2 \in summary.by_difficulty : e1.key = e2.key => e1 = e2
       /\ \A e \in summary.by_difficulty :
             e.total = Cardinality({i \in DOMAIN tasks : BucketOf(tasks[i]) = e.key})

RECURSIVE SumTotal(_)
SumTotal(S) ==
    IF S = {} THEN 0 ELSE LET e == CHOOSE x \in S : TRUE IN e.total + SumTotal(S \ {e})

RECURSIVE SumPassed(_)
SumPassed(S) ==
    IF S = {} THEN 0 ELSE LET e == CHOOSE x \in S : TRUE IN e.passed + SumPassed(S \ {e})

\* C17: in every summary that is written, total is the number of Results,
\* passed the number of them that passed, pass_at_1 is passed/total when total
\* is positive, the buckets' totals add up to total and their passed counts to
\* passed, and no bucket has more passed than total.
C17_SummaryCounts ==
    (f_op = "summary" /\ f_done /\ f_out.exists)
    => /\ f_out.total = Len(f_in)
       /\ f_out.passed = Cardinality({i \in DOMAIN f_in : f_in[i].passed})
       /\ f_out.total > 0 => f_out.pass_at_1 = <<f_out.passed, f_out.total>>
       /\ SumTotal(f_out.by_difficulty) = f_out.total
       /\ SumPassed(f_out.by_difficulty) = f_out.passed
       /\ \A e \in f_out.by_difficulty : e.passed <= e.total

C17_Witness ==
    /\ f_op = "summary" /\ f_done /\ f_out.exists
    /\ Cardinality(f_out.by_difficulty) = 2
    /\ 0 < f_out.passed /\ f_out.passed < f_out.total

\* C18: load_tasks returns the dataset's rows in their order, idx being the
\* row's position; with a limit (not negative) it returns the first
\* min(limit, number of rows) rows and no other; a row without task_id gets
\* its index, as a string, for task_id.
C18_LoadTasksRows ==
    (f_op = "load_tasks" /\ f_done /\ (f_in.limit.some => f_in.limit.val >= 0))
    => LET rows == DatasetRows(f_in.dataset)
           n == IF f_in.limit.some /\ f_in.limit.val < Len(rows)
                THEN f_in.limit.val ELSE Len(rows)
       IN /\ Len(f_out) = n
          /\ \A i \in 1..n :
                /\ f_out[i].idx = i - 1
                /\ f_out[i].entry_point = rows[i].entry_point
                /\ f_out[i].prompt = rows[i].prompt
                /\ f_out[i].test = rows[i].test
                /\ f_out[i].difficulty_scale = rows[i].difficulty_scale
                /\ f_out[i].task_id = IF rows[i].task_id.some THEN rows[i].task_id.val
                                      ELSE Digits(i - 1)

C18_Witness ==
    /\ f_op = "load_tasks" /\ f_done
    /\ f_in.limit = SomeInt(1)
    /\ Len(DatasetRows(f_in.dataset)) = 2
    /\ Len(f_out) = 1

\* sub is in s at position i
OccursAt(sub, s, i) == i + Len(sub) - 1 <= Len(s) /\ SubSeq(s, i, i + Len(sub) - 1) = sub

\* C19: for every task and completion the assembled program holds the prompt,
\* after it the completion, after it the test code, each whole and unchanged,
\* and after them the harness epilogue with its call check(<entry_point>).
C19_AssembledInOrder ==
    (f_op = "assemble" /\ f_done)
    => \E i \in 1..(Len(f_out) + 1) :
          /\ OccursAt(f_in.t.prompt, f_out, i)
          /\ \E j \in (i + Len(f_in.t.prompt))..(Len(f_out) + 1) :
                /\ OccursAt(f_in.completion, f_out, j)
                /\ \E k \in (j + Len(f_in.completion))..(Len(f_out) + 1) :
                      /\ OccursAt(f_in.t.test, f_out, k)
                      /\ \E h \in (k + Len(f_in.t.test))..Len(f_out) :
                            OccursAt(<<"return check(", f_in.t.entry_point, ")">>, f_out, h)

C19_Witness ==
    /\ f_op = "assemble" /\ f_done
    /\ f_in.t.prompt = <<"x", "nl">>
    /\ f_in.completion = <<"nl", "x">>
    /\ f_in.t.test = <<"x", "x">>
    /\ IsSubstring(f_in.completion, f_out)

\* the words that are language tags when they come right after an opening fence
LanguageTags == {"python", "py"}

\* text has a fenced block: a fence and a later fence
HasBlock(text) == \E i, j \in 1..Len(text) : i < j /\ text[i] = "fence" /\ text[j] = "fence"

\* what lies between the fences of the first block
BetweenFences(text) ==
    LET open == FirstAt(text, "fence", 1)
    IN SubSeq(text, open + 1, FirstAt(text, "fence", open + 1) - 1)

\* the readings of a block's interior: what lies between the fences without
\* the language tag.  A tag word that ends the fence's line is a tag; one that
\* is followed by more text on the line may be read as a tag or as code.
Interiors(text) ==
    LET b == BetweenFences(text)
    IN IF b # <<>> /\ b[1] \in LanguageTags
       THEN IF Len(b) >= 2 /\ b[2] \in {"nl", "cr"} THEN {Tail(b)} ELSE {Tail(b), b}
       ELSE {b}

\* C20: when the response has a fenced block, with any language tag or none
\* after the opening fence, extract_code_only returns the interior of the first
\* block, trimmed; otherwise it returns the response, trimmed; and applied to
\* its own result it returns that result.
C20_ExtractInterior ==
    (f_op = "extract" /\ f_done)
    => /\ IF HasBlock(f_in)
          THEN \E b \in Interiors(f_in) : f_out.once = Strip(b)
          ELSE f_out.once = Strip(f_in)
       /\ f_out.twice = f_out.once

\* what was done for task i so far, the start of a model call left out
StepsOf(i) ==
    LET own == SelectSeq(steps, LAMBDA e : e.task = i /\ e.step # "call")
    IN [k \in 1..Len(own) |-> own[k].step]

\* C21: whatever --parallel is, at most one model call or child process is
\* under way at any moment; for each task the completion is obtained (by a
\* model call or from the saved artifact), the artifact is on disk, the program
\* is assembled, executed and its Result recorded, in this order; and nothing
\* is done for a task before the Result of the task before it is recorded.
C21_StrictlySequential ==
    /\ in_flight.calls + in_flight.children <= 1
    /\ \A i \in DOMAIN tasks :
          \/ IsPrefix(StepsOf(i), <<"obtain", "save", "assemble", "execute", "record">>)
          \/ IsPrefix(StepsOf(i), <<"obtain", "assemble", "execute", "record">>)
    /\ \A k \in DOMAIN steps :
          /\ steps[k].step = "call" =>
                (k = Len(steps) \/ steps[k + 1] = Step(steps[k].task, "obtain"))
          /\ steps[k].step = "assemble" =>
                GenPath(out_root, tasks[steps[k].task]) \in DOMAIN fs
          /\ steps[k].task > 1 =>
                \E j \in 1..(k - 1) : steps[j] = Step(steps[k].task - 1, "record")
          /\ \A j \in 1..(k - 1) : steps[j].task <= steps[k].task

C21_Witness ==
    /\ args.parallel = 2
    /\ Len(tasks) = 2 /\ cur = 2
    /\ pc = "executing"
    /\ in_flight = [calls |-> 0, children |-> 1]
    /\ Len(results) = 1

\* passed exactly when there is no error
PassedIffNoError(r) == r.passed <=> ~r.error.some

\* C22: every outcome run_in_subprocess returns has passed true exactly when
\* its error is None, so every outcome that is not passed (failure sentinel, no
\* sentinel, timeout, launch error) has an error string; and so has every
\* Result that is not passed.
C22_PassedIffNoError ==
    /\ x_pc = "returned" => PassedIffNoError(x_ret)
    /\ \A i \in DOMAIN results : PassedIffNoError(results[i])

C22_Witness ==
    /\ Len(results) = 2
    /\ results[1].passed /\ results[1].error = None
    /\ ~results[2].passed /\ results[2].error = Some(TimeoutError(args.timeout_sec))

====
